---- MODULE Spec2Model ----
(***************************************************************************)
(* The sucrase command line driver (src/cli.ts): option validation in      *)
(* run(), mode dispatch in buildDirectory(), recursive discovery in        *)
(* findFiles(), manifest resolution in updateOptionsFromProject(), project *)
(* file resolution in runGlob() and the sequential build loop over         *)
(* buildFile(), run against a small filesystem.                            *)
(*                                                                         *)
(* A file name is the sequence of its dot separated segments               *)
(* ("b.d.ts" is <<"b", "d", "ts">>, ".git" is <<"", "git">>); a path is    *)
(* the sequence of its names below the working directory.  JavaScript      *)
(* values that may be undefined are sets with at most one element.         *)
(***************************************************************************)
EXTENDS Integers, Sequences, FiniteSets, TLC

VARIABLES
  commander,    \* the parsed command line (commander.outDir, .args[0], ...)
  fs,           \* the filesystem: path -> "dir" or a file's content
  denied,       \* paths whose open for reading or writing fails (EACCES)
  transformFn,  \* the external transform: content -> content or "SyntaxError"
  tsconfig,     \* what <project>/tsconfig.json holds
  runNo,        \* "first" or "second" invocation of the program
  pc,           \* where the process is
  exitCode,     \* process.exitCode / the status of process.exit
  options,      \* the CLIOptions record
  before,       \* options as updateOptionsFromProject received them
  stack,        \* the findFiles activations, innermost last
  files,        \* buildDirectory's files
  index,        \* position of the build loop in files
  code,         \* buildFile's code, once read
  glob,         \* runGlob's locals
  io,           \* every filesystem call of this invocation, in order
  failure,      \* what made the invocation fail, "" if nothing
  snap          \* the output tree as the first invocation left it

vars == <<commander, fs, denied, transformFn, tsconfig, runNo, pc, exitCode,
          options, before, stack, files, index, code, glob, io, failure, snap>>

\* bounds
MaxPathDepth == 5
MaxTransforms == 2

-----------------------------------------------------------------------------
(* JavaScript values *)

Undefined == {}
Some(v) == {v}
Get(o) == CHOOSE v \in o : TRUE
Truthy(o) == o # Undefined

RECURSIVE SetToSeq(_)
SetToSeq(S) ==
  IF S = {} THEN <<>>
  ELSE LET x == CHOOSE y \in S : TRUE IN <<x>> \o SetToSeq(S \ {x})

Range(s) == {s[i] : i \in 1..Len(s)}
Includes(s, x) == \E i \in 1..Len(s) : s[i] = x
Count(s, x) == Cardinality({i \in 1..Len(s) : s[i] = x})

-----------------------------------------------------------------------------
(* path *)

Join(p, q) == p \o q
Dirname(p) == SubSeq(p, 1, Len(p) - 1)
Basename(p) == p[Len(p)]
IsPrefix(p, q) == Len(p) <= Len(q) /\ SubSeq(q, 1, Len(p)) = p
Relative(from, to) == SubSeq(to, Len(from) + 1, Len(to))

\* String.prototype.endsWith("." + suffix) on a path: the last name ends with
\* the suffix's segments and a dot precedes them.
EndsWith(p, suffix) ==
  /\ Len(p) >= 1
  /\ LET n == Basename(p) IN
       /\ Len(n) > Len(suffix)
       /\ SubSeq(n, Len(n) - Len(suffix) + 1, Len(n)) = suffix

\* the replacement as /\..+$/ would make it: everything after the name's first
\* dot is replaced
ReplaceAllExt(p, ext) ==
  IF Len(p) >= 1 /\ Len(Basename(p)) >= 2 /\ Basename(p)[Len(Basename(p))] # ""
  THEN Append(Dirname(p), <<Basename(p)[1], ext>>)
  ELSE p

\* p.replace(/\.\w+$/, "." + ext): the regular expression matches a dot and the
\* word characters after it at the end of the string, so the last segment of the
\* last name, when there is a dot before it and it is not empty.
ReplaceExt(p, ext) ==
  IF Len(p) >= 1 /\ Len(Basename(p)) >= 2 /\ Basename(p)[Len(Basename(p))] # ""
  THEN LET n == Basename(p) IN
       Append(Dirname(p), Append(SubSeq(n, 1, Len(n) - 1), ext))
  ELSE p

-----------------------------------------------------------------------------
(* mz/fs against the filesystem f *)

Exists(f, p) == p \in DOMAIN f
IsDirectory(f, p) == p \in DOMAIN f /\ f[p] = "dir"
IsFile(f, p) == p \in DOMAIN f /\ f[p] # "dir"

\* mkdir is not recursive: the parent must be a directory, the path must not
\* exist and must not be longer than the system allows (ENAMETOOLONG).
MkdirOk(f, p) ==
  /\ Len(p) >= 1
  /\ Len(p) <= MaxPathDepth
  /\ ~Exists(f, p)
  /\ IsDirectory(f, Dirname(p))

Mkdir(f, p) == [q \in DOMAIN f \cup {p} |-> IF q = p THEN "dir" ELSE f[q]]

ReaddirOk(f, p) == IsDirectory(f, p)
Readdir(f, p) ==
  SetToSeq({Basename(q) : q \in {r \in DOMAIN f : Len(r) = Len(p) + 1 /\ Dirname(r) = p}})

ReadOk(f, d, p) == IsFile(f, p) /\ p \notin d

WriteOk(f, d, p) ==
  /\ Len(p) >= 1
  /\ Len(p) <= MaxPathDepth
  /\ IsDirectory(f, Dirname(p))
  /\ ~IsDirectory(f, p)
  /\ p \notin d

\* writeFile with flag "a": a file that is there is added to, not replaced
WriteFileAppend(f, p, c) ==
  [q \in DOMAIN f \cup {p} |->
     IF q = p THEN (IF IsFile(f, p) THEN "appended" ELSE c) ELSE f[q]]

\* line 295: writeFile replaces what the file held
WriteFile(f, p, c) == [q \in DOMAIN f \cup {p} |-> IF q = p THEN c ELSE f[q]]

\* one entry of the log of filesystem calls
\* (idx: the pair being built, 0 outside the build loop; data: the content read
\* or written; at: where the process was)
Io(op, p, ok, i, d) ==
  [op |-> op, path |-> p, ok |-> ok, idx |-> i, data |-> d, at |-> pc]

-----------------------------------------------------------------------------
(* the inputs: command lines, filesystems, manifests, transforms *)

SRC == <<<<"src">>>>
OUT == <<<<"out">>>>
INSIDE == <<<<"src">>, <<"out">>>>
PROJ == <<<<"proj">>>>
DIST == <<<<"dist">>>>
TSCONFIG == <<<<"tsconfig", "json">>>>

Content == {"c0", "c1"}
Transforms == [Content -> Content \cup {"SyntaxError"}]

\* a filesystem from a set of <<path, node>> entries
MkFs(entries) ==
  [p \in {e[1] : e \in entries} |-> (CHOOSE e \in entries : e[1] = p)[2]]

\* always there: the working directory, a source directory holding a reserved
\* directory, a directory the command line may exclude and a JavaScript file,
\* and a project directory.
BaseEntries ==
  { << <<>>, "dir" >>,
    << SRC, "dir" >>,
    << Join(SRC, <<<<"", "git">>>>), "dir" >>,
    << Join(SRC, <<<<"", "git">>, <<"h", "ts">>>>), "c0" >>,
    << Join(SRC, <<<<"skip">>>>), "dir" >>,
    << Join(SRC, <<<<"skip">>, <<"s", "ts">>>>), "c0" >>,
    << Join(SRC, <<<<"a", "js">>>>), "c0" >>,
    << PROJ, "dir" >>,
    << Join(PROJ, TSCONFIG), "c0" >>,
    << Join(PROJ, <<<<"x", "ts">>>>), "c0" >>,
    << Join(PROJ, <<<<"t", "d", "ts">>>>), "c1" >>,
    << Join(PROJ, <<<<"lib">>>>), "dir" >>,
    << Join(PROJ, <<<<"lib">>, <<"y", "ts">>>>), "c1" >>,
    << Join(PROJ, <<<<"lib">>, <<"n", "md">>>>), "c0" >> }

\* optional parts of the source tree
Units ==
  { { << Join(SRC, <<<<"a", "ts">>>>), "c0" >> },
    { << Join(SRC, <<<<"sub">>>>), "dir" >>,
      << Join(SRC, <<<<"sub">>, <<"b", "d", "ts">>>>), "c1" >> },
    { << Join(SRC, <<<<"sub">>>>), "dir" >>,
      << Join(SRC, <<<<"sub">>, <<"node_modules">>>>), "dir" >>,
      << Join(SRC, <<<<"sub">>, <<"node_modules">>, <<"m", "ts">>>>), "c0" >> } }

SourceTrees == {MkFs(BaseEntries \cup UNION us) : us \in SUBSET Units}
DefaultFs == MkFs(BaseEntries \cup UNION Units)

Commander(outDir, args0, project, transforms, ext, excludeDirs, legacy) ==
  [ outDir |-> outDir, args0 |-> args0, project |-> project,
    transforms |-> transforms, outExtension |-> ext,
    excludeDirs |-> excludeDirs,
    enableLegacyTypescriptModuleInterop |-> legacy ]

Manifest(valid, filesList, include, compilerOptions) ==
  [ valid |-> valid, files |-> filesList, include |-> include,
    compilerOptions |-> compilerOptions ]

CompilerOptions ==
  [ outDir : {Undefined, Some(DIST)},
    esModuleInterop : {"undefined", "true", "false", "'true'"},
    module : {"undefined", "commonjs", "esnext"} ]

FilesLists ==
  { Undefined,
    Some(<< <<<<"x", "ts">>>>, <<<<"t", "d", "ts">>>>, <<<<"lib">>, <<"n", "md">>>>,
            <<<<"lib">>, <<"y", "ts">>>> >>),
    Some(<< <<<<"x", "ts">>>>, <<<<"gone", "ts">>>>, <<<<"lib">>, <<"y", "ts">>>> >>) }

\* a glob pattern: a directory below the project and "*" followed by a suffix
Pattern(dir, suffix) == [dir |-> dir, suffix |-> suffix]
IncludeLists ==
  { Undefined,
    Some(<< Pattern(<<>>, <<"ts">>) >>),
    Some(<< Pattern(<<>>, <<"ts">>), Pattern(<<<<"lib">>>>, <<>>) >>) }

Manifests ==
  { Manifest(TRUE, f, i, c) :
      f \in FilesLists, i \in IncludeLists,
      c \in {Undefined} \cup {Some(co) : co \in CompilerOptions} }
  \cup { Manifest(FALSE, Undefined, Undefined, Undefined) }

DefaultManifest == Manifest(TRUE, Undefined, Undefined, Undefined)

NoOptions ==
  [ outDirPath |-> Undefined, srcDirPath |-> Undefined, project |-> Undefined,
    outExtension |-> "js", excludeDirs |-> <<>>, transforms |-> <<>>,
    enableLegacyTypeScriptModuleInterop |-> "undefined" ]

NoGlob == [foundFiles |-> <<>>, outDirs |-> <<>>, include |-> <<>>, dirs |-> <<>>]
NoSnap == [fs |-> <<>>, io |-> <<>>, outDirPath |-> Undefined, files |-> <<>>,
           exitCode |-> 0]

\* the state of a process about to call run()
Fresh ==
  /\ pc = "start"
  /\ exitCode = 0
  /\ options = NoOptions
  /\ before = NoOptions
  /\ stack = <<>>
  /\ files = <<>>
  /\ index = 0
  /\ code = Undefined
  /\ glob = NoGlob
  /\ io = <<>>
  /\ failure = ""

\* explicit mode: every source tree, output placement, pass list, extension,
\* exclusion list, transform and a file that cannot be opened
InitExplicit ==
  /\ \E outDir \in {OUT, SRC, INSIDE},
        transforms \in {<<"typescript">>, <<"imports">>},
        ext \in {"js", "mjs"},
        excludeDirs \in {<<>>, <<<<"skip">>>>} :
       /\ commander = Commander(Some(outDir), Some(SRC), Undefined, transforms,
                                ext, excludeDirs, "undefined")
       /\ denied \in
            { {},
              {Join(SRC, <<<<"sub">>, <<"b", "d", "ts">>>>)},
              {Join(outDir, <<<<"sub">>, <<"b", "d", ext>>>>)} }
  /\ fs \in SourceTrees
  /\ transformFn \in Transforms
  /\ tsconfig = DefaultManifest

\* project mode: every manifest and transform, the manifest readable or not
InitProject ==
  /\ commander = Commander(Undefined, Undefined, Some(PROJ), <<>>, "js", <<>>,
                           "undefined")
  /\ fs = DefaultFs
  /\ transformFn \in Transforms
  /\ tsconfig \in Manifests
  /\ denied \in {{}, {Join(PROJ, TSCONFIG)}}

\* every combination of the options run() validates
InitCommandLine ==
  /\ \E outDir \in {Undefined, Some(OUT)},
        args0 \in {Undefined, Some(SRC)},
        project \in {Undefined, Some(PROJ)},
        transforms \in {<<>>, <<"typescript">>},
        legacy \in {"undefined", "true"} :
       commander = Commander(outDir, args0, project, transforms, "js", <<>>, legacy)
  /\ fs = DefaultFs
  /\ transformFn = [c \in Content |-> c]
  /\ tsconfig = Manifest(TRUE, Undefined, Undefined,
                         Some([outDir |-> Some(DIST), esModuleInterop |-> "true",
                               module |-> "commonjs"]))
  /\ denied = {}

Init ==
  /\ \/ InitExplicit
     \/ InitProject
     \/ InitCommandLine
  /\ runNo = "first"
  /\ snap = NoSnap
  /\ Fresh

-----------------------------------------------------------------------------
(* run() *)

Log(entries) == io' = io \o entries

Exit(status) == pc' = "exited" /\ exitCode' = status

\* run() without the checks of lines 49-60
RefusedWithoutProjectCheck(c) ==
  /\ ~Truthy(c.project)
  /\ \/ ~Truthy(c.outDir)
     \/ Len(c.transforms) = 0
     \/ ~Truthy(c.args0)

\* lines 48-76: what run() refuses
Refused(c) ==
  IF Truthy(c.project)
  THEN \/ Truthy(c.outDir)
       \/ Len(c.transforms) > 0
       \/ Truthy(c.args0)
       \/ c.enableLegacyTypescriptModuleInterop = "true"
  ELSE \/ ~Truthy(c.outDir)
       \/ Len(c.transforms) = 0
       \/ ~Truthy(c.args0)

\* lines 78-93
MakeOptions(c) ==
  [ outDirPath |-> c.outDir, srcDirPath |-> c.args0, project |-> c.project,
    outExtension |-> c.outExtension, excludeDirs |-> c.excludeDirs,
    transforms |-> c.transforms,
    enableLegacyTypeScriptModuleInterop |-> c.enableLegacyTypescriptModuleInterop ]

Run ==
  /\ pc = "start"
  /\ IF Refused(commander)
     THEN Exit(1) /\ UNCHANGED options
     ELSE /\ options' = MakeOptions(commander)
          /\ pc' = "buildDirectory"
          /\ UNCHANGED exitCode
  /\ UNCHANGED <<commander, fs, denied, transformFn, tsconfig, runNo, before,
                 stack, files, index, code, glob, io, failure, snap>>

\* a promise of buildDirectory rejects
Throw(what) == pc' = "rejected" /\ failure' = what

Frame(srcDirPath, outDirPath) ==
  [ srcDirPath |-> srcDirPath, outDirPath |-> outDirPath, at |-> "enter",
    children |-> <<>>, outArr |-> <<>> ]

\* lines 273-282
BuildDirectory ==
  /\ pc = "buildDirectory"
  /\ IF Truthy(options.outDirPath) /\ Truthy(options.srcDirPath)
     THEN /\ stack' = <<Frame(Get(options.srcDirPath), Get(options.outDirPath))>>
          /\ pc' = "findFiles"
          /\ UNCHANGED exitCode
     ELSE IF Truthy(options.project)
     THEN /\ pc' = "updateOptions"
          /\ UNCHANGED <<stack, exitCode>>
     ELSE /\ Exit(1)
          /\ UNCHANGED stack
  /\ UNCHANGED <<commander, fs, denied, transformFn, tsconfig, runNo, options,
                 before, files, index, code, glob, io, failure, snap>>

-----------------------------------------------------------------------------
(* findFiles() *)

Top == stack[Len(stack)]
SetTop(frame) == [stack EXCEPT ![Len(stack)] = frame]

\* lines 110-112
Extensions(transforms) ==
  IF Includes(transforms, "typescript")
  THEN {<<"ts">>, <<"tsx">>}
  ELSE {<<"js">>, <<"jsx">>}

\* a listing loop without line 120
SkipsNothing(child, excludeDirs) == FALSE

\* line 120
Skips(child, excludeDirs) ==
  \/ child \in {<<"node_modules">>, <<"", "git">>}
  \/ Includes(excludeDirs, child)

\* lines 107-116
FindFilesMkdir ==
  /\ pc = "findFiles"
  /\ Top.at = "enter"
  /\ LET outDirPath == Top.outDirPath IN
       IF Exists(fs, outDirPath)
       THEN /\ Log(<<Io("exists", outDirPath, TRUE, 0, "")>>)
            /\ stack' = SetTop([Top EXCEPT !.at = "readdir"])
            /\ UNCHANGED <<fs, pc, failure>>
       ELSE IF MkdirOk(fs, outDirPath)
       THEN /\ Log(<<Io("exists", outDirPath, FALSE, 0, ""),
                     Io("mkdir", outDirPath, TRUE, 0, "")>>)
            /\ fs' = Mkdir(fs, outDirPath)
            /\ stack' = SetTop([Top EXCEPT !.at = "readdir"])
            /\ UNCHANGED <<pc, failure>>
       ELSE /\ Log(<<Io("exists", outDirPath, FALSE, 0, ""),
                     Io("mkdir", outDirPath, FALSE, 0, "")>>)
            /\ Throw(IF Len(outDirPath) > MaxPathDepth THEN "ENAMETOOLONG" ELSE "mkdir")
            /\ UNCHANGED <<fs, stack>>
  /\ UNCHANGED <<commander, denied, transformFn, tsconfig, runNo, exitCode,
                 options, before, files, index, code, glob, snap>>

\* line 119
FindFilesReaddir ==
  /\ pc = "findFiles"
  /\ Top.at = "readdir"
  /\ LET srcDirPath == Top.srcDirPath IN
       IF ReaddirOk(fs, srcDirPath)
       THEN /\ Log(<<Io("readdir", srcDirPath, TRUE, 0, "")>>)
            /\ stack' = SetTop([Top EXCEPT !.at = "loop",
                                           !.children = Readdir(fs, srcDirPath)])
            /\ UNCHANGED <<pc, failure>>
       ELSE /\ Log(<<Io("readdir", srcDirPath, FALSE, 0, "")>>)
            /\ Throw("readdir")
            /\ UNCHANGED stack
  /\ UNCHANGED <<commander, fs, denied, transformFn, tsconfig, runNo, exitCode,
                 options, before, files, index, code, glob, snap>>

FileInfo(srcPath, outPath) == [srcPath |-> srcPath, outPath |-> outPath]

\* lines 120-137: one child of the listing
FindFilesChild ==
  /\ pc = "findFiles"
  /\ Top.at = "loop"
  /\ Top.children # <<>>
  /\ LET child == Head(Top.children)
         rest == [Top EXCEPT !.children = Tail(Top.children)]
         srcChildPath == Join(Top.srcDirPath, <<child>>)
         outChildPath == Join(Top.outDirPath, <<child>>)
     IN  IF Skips(child, options.excludeDirs)
         THEN /\ stack' = SetTop(rest)
              /\ UNCHANGED io
         ELSE IF IsDirectory(fs, srcChildPath)
         THEN /\ Log(<<Io("stat", srcChildPath, TRUE, 0, "")>>)
              /\ stack' = Append(SetTop(rest), Frame(srcChildPath, outChildPath))
         ELSE IF \E ext \in Extensions(options.transforms) : EndsWith(srcChildPath, ext)
         THEN /\ Log(<<Io("stat", srcChildPath, TRUE, 0, "")>>)
              /\ stack' = SetTop([rest EXCEPT !.outArr =
                   Append(@, FileInfo(srcChildPath,
                                      ReplaceExt(outChildPath, options.outExtension)))])
         ELSE /\ Log(<<Io("stat", srcChildPath, TRUE, 0, "")>>)
              /\ stack' = SetTop(rest)
  /\ UNCHANGED <<commander, fs, denied, transformFn, tsconfig, runNo, pc, exitCode,
                 options, before, files, index, code, glob, failure, snap>>

\* lines 129-130, 140, 275: the listing is used up
FindFilesReturn ==
  /\ pc = "findFiles"
  /\ Top.at = "loop"
  /\ Top.children = <<>>
  /\ IF Len(stack) > 1
     THEN /\ stack' = [SubSeq(stack, 1, Len(stack) - 1) EXCEPT ![Len(stack) - 1].outArr =
                         @ \o Top.outArr]
          /\ UNCHANGED <<pc, files, index>>
     ELSE /\ stack' = <<>>
          /\ files' = Top.outArr
          /\ index' = 1
          /\ pc' = "build"
  /\ UNCHANGED <<commander, fs, denied, transformFn, tsconfig, runNo, exitCode,
                 options, before, code, glob, io, failure, snap>>

-----------------------------------------------------------------------------
(* updateOptionsFromProject() *)

\* a push without the includes() test
PushAlways(transforms, name) == Append(transforms, name)

\* lines 254-256 and 266-268
EnsureTransform(transforms, name) ==
  IF Includes(transforms, name) THEN transforms ELSE Append(transforms, name)

\* the test as esModuleInterop === false
LegacyInteropUnlessFalse(flag, esModuleInterop) ==
  IF esModuleInterop = "false" THEN "true" ELSE flag

\* lines 262-264
LegacyInterop(flag, esModuleInterop) ==
  IF esModuleInterop # "true" THEN "true" ELSE flag

\* the push without the test of module
ImportsAlways(transforms, module) == EnsureTransform(transforms, "imports")

\* lines 265-269
ImportsFor(transforms, module) ==
  IF module = "commonjs" THEN EnsureTransform(transforms, "imports") ELSE transforms

\* lines 258-269, compilerOpts being an object
Resolve(o, compilerOpts) ==
  [ o EXCEPT
      !.outDirPath = IF Truthy(compilerOpts.outDir)
                     THEN Some(Join(Get(o.project), Get(compilerOpts.outDir)))
                     ELSE @,
      !.enableLegacyTypeScriptModuleInterop =
          LegacyInterop(@, compilerOpts.esModuleInterop),
      !.transforms = ImportsFor(@, compilerOpts.module) ]

\* lines 241-269
UpdateOptionsFromProject ==
  /\ pc = "updateOptions"
  /\ before' = options
  /\ LET tsConfigPath == Join(Get(options.project), TSCONFIG)
         withTypescript ==
           [options EXCEPT !.transforms = EnsureTransform(@, "typescript")]
     IN  IF ~ReadOk(fs, denied, tsConfigPath)
         THEN /\ Log(<<Io("readFile", tsConfigPath, FALSE, 0, "")>>)
              /\ Exit(1)
              /\ UNCHANGED <<options, failure>>
         ELSE /\ Log(<<Io("readFile", tsConfigPath, TRUE, 0, "")>>)
              /\ UNCHANGED exitCode
              /\ IF ~tsconfig.valid
                 THEN Throw("SyntaxError") /\ UNCHANGED options
                 ELSE IF ~Truthy(tsconfig.compilerOptions)
                 THEN Throw("TypeError") /\ options' = withTypescript
                 ELSE /\ options' = Resolve(withTypescript, Get(tsconfig.compilerOptions))
                      /\ pc' = "runGlob"
                      /\ UNCHANGED failure
  /\ UNCHANGED <<commander, fs, denied, transformFn, tsconfig, runNo, stack, files,
                 index, code, glob, snap>>

-----------------------------------------------------------------------------
(* runGlob() *)

\* glob(join(absProject, pattern)): the entries of the pattern's directory whose
\* name ends with the pattern's suffix, in the order glob yields them
Glob(f, absProject, pattern) ==
  SetToSeq({q \in DOMAIN f :
              /\ Len(q) >= 1
              /\ Dirname(q) = Join(absProject, pattern.dir)
              /\ pattern.suffix # <<>> => EndsWith(q, pattern.suffix)})

\* lines 182-190 and 208-216
AddFound(acc, srcPath, outPath) ==
  [ acc EXCEPT
      !.outDirs = IF Includes(@, Dirname(outPath)) THEN @ ELSE Append(@, Dirname(outPath)),
      !.foundFiles = Append(@, FileInfo(srcPath, outPath)) ]

\* lines 170-191
RECURSIVE FilesLoop(_, _, _)
FilesLoop(list, acc, o) ==
  IF list = <<>> THEN acc
  ELSE LET file == Head(list) IN
       IF EndsWith(file, <<"d", "ts">>)
       THEN FilesLoop(Tail(list), acc, o)
       ELSE IF ~EndsWith(file, <<"ts">>) /\ ~EndsWith(file, <<"js">>)
       THEN FilesLoop(Tail(list), acc, o)
       ELSE LET srcFile == Join(Get(o.project), file)
                outFile == Join(Get(o.outDirPath), file)
                outPath == ReplaceExt(outFile, o.outExtension)
            IN  FilesLoop(Tail(list), AddFound(acc, srcFile, outPath), o)

\* lines 196-217
RECURSIVE GlobLoop(_, _, _)
GlobLoop(globFiles, acc, o) ==
  IF globFiles = <<>> THEN acc
  ELSE LET file == Head(globFiles) IN
       IF ~EndsWith(file, <<"ts">>) /\ ~EndsWith(file, <<"js">>)
       THEN GlobLoop(Tail(globFiles), acc, o)
       ELSE IF EndsWith(file, <<"d", "ts">>)
       THEN GlobLoop(Tail(globFiles), acc, o)
       ELSE LET relativeFile == Relative(Get(o.project), file)
                outFile == Join(Get(o.outDirPath), relativeFile)
                outPath == ReplaceExt(outFile, o.outExtension)
            IN  GlobLoop(Tail(globFiles), AddFound(acc, file, outPath), o)

\* lines 144-160
RunGlobRead ==
  /\ pc = "runGlob"
  /\ LET tsConfigPath == Join(Get(options.project), TSCONFIG) IN
       IF ~ReadOk(fs, denied, tsConfigPath)
       THEN /\ Log(<<Io("readFile", tsConfigPath, FALSE, 0, "")>>)
            /\ Exit(1)
            /\ UNCHANGED <<glob, failure>>
       ELSE /\ Log(<<Io("readFile", tsConfigPath, TRUE, 0, "")>>)
            /\ UNCHANGED exitCode
            /\ IF ~tsconfig.valid
               THEN Throw("SyntaxError") /\ UNCHANGED glob
               ELSE /\ glob' = NoGlob
                    /\ pc' = "globRoot"
                    /\ UNCHANGED failure
  /\ UNCHANGED <<commander, fs, denied, transformFn, tsconfig, runNo, options, before,
                 stack, files, index, code, snap>>

AfterFiles(g) == IF g.include = <<>> THEN "globMkdir" ELSE "globInclude"

\* lines 162-167
RunGlobRoot ==
  /\ pc = "globRoot"
  /\ IF ~Truthy(options.outDirPath)
     THEN /\ Throw("TypeError")
          /\ UNCHANGED <<fs, io>>
     ELSE LET outDirPath == Get(options.outDirPath) IN
          IF Exists(fs, outDirPath)
          THEN /\ Log(<<Io("exists", outDirPath, TRUE, 0, "")>>)
               /\ pc' = "globFiles"
               /\ UNCHANGED <<fs, failure>>
          ELSE IF MkdirOk(fs, outDirPath)
          THEN /\ Log(<<Io("exists", outDirPath, FALSE, 0, ""),
                        Io("mkdir", outDirPath, TRUE, 0, "")>>)
               /\ fs' = Mkdir(fs, outDirPath)
               /\ pc' = "globFiles"
               /\ UNCHANGED failure
          ELSE /\ Log(<<Io("exists", outDirPath, FALSE, 0, ""),
                        Io("mkdir", outDirPath, FALSE, 0, "")>>)
               /\ Throw("mkdir")
               /\ UNCHANGED fs
  /\ UNCHANGED <<commander, denied, transformFn, tsconfig, runNo, exitCode, options,
                 before, stack, files, index, code, glob, snap>>

\* lines 169-193
RunGlobFiles ==
  /\ pc = "globFiles"
  /\ LET found == IF Truthy(tsconfig.files)
                  THEN FilesLoop(Get(tsconfig.files), glob, options)
                  ELSE glob
         g == [found EXCEPT !.include = IF Truthy(tsconfig.include)
                                        THEN Get(tsconfig.include) ELSE <<>>]
     IN  /\ glob' = g
         /\ pc' = AfterFiles(g)
  /\ UNCHANGED <<commander, fs, denied, transformFn, tsconfig, runNo, exitCode,
                 options, before, stack, files, index, code, io, failure,
                 snap>>

\* lines 194-218: one pattern
RunGlobInclude ==
  /\ pc = "globInclude"
  /\ LET pattern == Head(glob.include)
         globFiles == Glob(fs, Get(options.project), pattern)
         g == [GlobLoop(globFiles, glob, options) EXCEPT !.include = Tail(@)]
     IN  /\ Log(<<Io("glob", Join(Get(options.project), pattern.dir), TRUE, 0, "")>>)
         /\ glob' = g
         /\ pc' = AfterFiles(g)
  /\ UNCHANGED <<commander, fs, denied, transformFn, tsconfig, runNo, exitCode,
                 options, before, stack, files, index, code, failure, snap>>

\* the loop without the exists() test
NeedsMkdirAlways(f, p) == TRUE

\* line 222
NeedsMkdir(f, p) == ~Exists(f, p)

\* lines 221-225: one needed directory
RunGlobMkdir ==
  /\ pc = "globMkdir"
  /\ Len(glob.dirs) < Len(glob.outDirs)
  /\ LET outDirPath == glob.outDirs[Len(glob.dirs) + 1] IN
       /\ glob' = [glob EXCEPT !.dirs = Append(@, outDirPath)]
       /\ IF ~NeedsMkdir(fs, outDirPath)
          THEN /\ Log(<<Io("exists", outDirPath, TRUE, 0, "")>>)
               /\ UNCHANGED <<fs, pc, failure>>
          ELSE IF MkdirOk(fs, outDirPath)
          THEN /\ Log(<<Io("exists", outDirPath, FALSE, 0, ""),
                        Io("mkdir", outDirPath, TRUE, 0, "")>>)
               /\ fs' = Mkdir(fs, outDirPath)
               /\ UNCHANGED <<pc, failure>>
          ELSE /\ Log(<<Io("exists", outDirPath, FALSE, 0, ""),
                        Io("mkdir", outDirPath, FALSE, 0, "")>>)
               /\ Throw("mkdir")
               /\ UNCHANGED fs
  /\ UNCHANGED <<commander, denied, transformFn, tsconfig, runNo, exitCode, options,
                 before, stack, files, index, code, snap>>

\* lines 229, 278
RunGlobReturn ==
  /\ pc = "globMkdir"
  /\ Len(glob.dirs) = Len(glob.outDirs)
  /\ files' = glob.foundFiles
  /\ index' = 1
  /\ pc' = "build"
  /\ UNCHANGED <<commander, fs, denied, transformFn, tsconfig, runNo, exitCode,
                 options, before, stack, code, glob, io, failure, snap>>

-----------------------------------------------------------------------------
(* the build loop and buildFile() *)

\* a loop that catches buildFile's rejection and goes on with the next pair
SkipFile(what) == pc' = "build" /\ index' = index + 1 /\ UNCHANGED failure

\* lines 284-286: buildFile's rejection leaves the loop and rejects buildDirectory
Abort(what) == Throw(what) /\ UNCHANGED index

\* the external transform of ./index, rejecting what it cannot parse
Transform(c) == IF c \in DOMAIN transformFn THEN transformFn[c] ELSE "SyntaxError"

\* line 293
BuildFileRead ==
  /\ pc = "build"
  /\ index <= Len(files)
  /\ LET srcPath == files[index].srcPath IN
       IF ReadOk(fs, denied, srcPath)
       THEN /\ Log(<<Io("readFile", srcPath, TRUE, index, fs[srcPath])>>)
            /\ code' = Some(fs[srcPath])
            /\ pc' = "buildWrite"
            /\ UNCHANGED <<index, failure>>
       ELSE /\ Log(<<Io("readFile", srcPath, FALSE, index, "")>>)
            /\ Abort("read")
            /\ UNCHANGED code
  /\ UNCHANGED <<commander, fs, denied, transformFn, tsconfig, runNo, exitCode,
                 options, before, stack, files, glob, snap>>

\* lines 294-295
BuildFileWrite ==
  /\ pc = "buildWrite"
  /\ LET outPath == files[index].outPath
         transformedCode == Transform(Get(code))
     IN  IF transformedCode = "SyntaxError"
         THEN /\ Log(<<Io("transform", files[index].srcPath, FALSE, index, "")>>)
              /\ Abort("transform")
              /\ UNCHANGED fs
         ELSE IF WriteOk(fs, denied, outPath)
         THEN /\ Log(<<Io("writeFile", outPath, TRUE, index, transformedCode)>>)
              /\ fs' = WriteFile(fs, outPath, transformedCode)
              /\ pc' = "build"
              /\ index' = index + 1
              /\ UNCHANGED failure
         ELSE /\ Log(<<Io("writeFile", outPath, FALSE, index, "")>>)
              /\ Abort("write")
              /\ UNCHANGED fs
  /\ code' = Undefined
  /\ UNCHANGED <<commander, denied, transformFn, tsconfig, runNo, exitCode, options,
                 before, stack, files, glob, snap>>

\* line 287: every file is built and buildDirectory resolves
BuildDirectoryReturn ==
  /\ pc = "build"
  /\ index > Len(files)
  /\ pc' = "exited"
  /\ UNCHANGED <<commander, fs, denied, transformFn, tsconfig, runNo, exitCode,
                 options, before, stack, files, index, code, glob, io,
                 failure, snap>>

\* line 96
ExitCodeOnError == 1

\* lines 95-98
Catch ==
  /\ pc = "rejected"
  /\ exitCode' = ExitCodeOnError
  /\ pc' = "exited"
  /\ UNCHANGED <<commander, fs, denied, transformFn, tsconfig, runNo, options, before,
                 stack, files, index, code, glob, io, failure, snap>>

\* the same command line is run again on the filesystem the first run left
Rerun ==
  /\ pc = "exited"
  /\ runNo = "first"
  /\ runNo' = "second"
  /\ snap' = [fs |-> fs, io |-> io, outDirPath |-> options.outDirPath,
              files |-> files, exitCode |-> exitCode]
  /\ pc' = "start"
  /\ exitCode' = 0
  /\ options' = NoOptions
  /\ before' = NoOptions
  /\ stack' = <<>>
  /\ files' = <<>>
  /\ index' = 0
  /\ code' = Undefined
  /\ glob' = NoGlob
  /\ io' = <<>>
  /\ failure' = ""
  /\ UNCHANGED <<commander, fs, denied, transformFn, tsconfig>>

Next ==
  \/ Run
  \/ BuildDirectory
  \/ FindFilesMkdir
  \/ FindFilesReaddir
  \/ FindFilesChild
  \/ FindFilesReturn
  \/ UpdateOptionsFromProject
  \/ RunGlobRead
  \/ RunGlobRoot
  \/ RunGlobFiles
  \/ RunGlobInclude
  \/ RunGlobMkdir
  \/ RunGlobReturn
  \/ BuildFileRead
  \/ BuildFileWrite
  \/ BuildDirectoryReturn
  \/ Catch
  \/ Rerun

Spec == Init /\ [][Next]_vars

-----------------------------------------------------------------------------
(* updateOptionsFromProject() on every options record *)

SeqsUpTo(S, n) == UNION {[1..k -> S] : k \in 0..n}

InitResolver ==
  /\ \E transforms \in SeqsUpTo({"typescript", "imports", "jsx"}, MaxTransforms),
        legacy \in {"undefined", "true", "false"},
        outDirPath \in {Undefined, Some(OUT)} :
       options = [NoOptions EXCEPT !.project = Some(PROJ),
                                   !.outDirPath = outDirPath,
                                   !.transforms = transforms,
                                   !.enableLegacyTypeScriptModuleInterop = legacy]
  /\ tsconfig \in {m \in Manifests : m.files = Undefined /\ m.include = Undefined}
  /\ denied \in {{}, {Join(PROJ, TSCONFIG)}}
  /\ commander = Commander(Undefined, Undefined, Some(PROJ), <<>>, "js", <<>>,
                           "undefined")
  /\ fs = DefaultFs
  /\ transformFn = [c \in Content |-> c]
  /\ runNo = "first"
  /\ snap = NoSnap
  /\ pc = "updateOptions"
  /\ exitCode = 0
  /\ before = NoOptions
  /\ stack = <<>>
  /\ files = <<>>
  /\ index = 0
  /\ code = Undefined
  /\ glob = NoGlob
  /\ io = <<>>
  /\ failure = ""

NextResolver ==
  \/ UpdateOptionsFromProject
  \/ Catch

SpecResolver == InitResolver /\ [][NextResolver]_vars

-----------------------------------------------------------------------------
(* what the claims speak of *)

Explicit == Truthy(options.outDirPath) /\ Truthy(options.srcDirPath)
Project == ~Truthy(options.srcDirPath) /\ Truthy(options.project)

\* the calls of the log that touch the source side and the output side
SourceOps == {"readdir", "stat", "readFile", "transform", "glob"}
OutputOps == {"exists", "mkdir", "writeFile"}

\* the last successful write to path p in log l
LastWrite(l, p) ==
  l[CHOOSE m \in 1..Len(l) :
      /\ l[m].op = "writeFile" /\ l[m].ok /\ l[m].path = p
      /\ \A k \in (m + 1)..Len(l) : ~(l[k].op = "writeFile" /\ l[k].ok /\ l[k].path = p)]

\* C1: when reading, transforming or writing the k-th pair fails, it is the last
\* filesystem call of the invocation: no pair after k is read or written, every
\* output written before still holds what was last written to it, buildDirectory
\* is rejected and the process ends with a non-zero exit status.
C1_FailureAbortsBatch ==
  \A n \in 1..Len(io) :
    (io[n].idx > 0 /\ ~io[n].ok) =>
      /\ n = Len(io)
      /\ pc \in {"rejected", "exited"}
      /\ pc = "exited" => exitCode # 0
      /\ \A m \in 1..Len(io) :
           /\ io[m].idx <= io[n].idx
           /\ (io[m].op = "writeFile" /\ io[m].ok) =>
                /\ io[m].idx < io[n].idx
                /\ IsFile(fs, io[m].path)
                /\ fs[io[m].path] = LastWrite(io, io[m].path).data

\* a transform error on a pair that has pairs written before it and pairs after it
C1_Witness ==
  /\ pc = "exited"
  /\ exitCode = 1
  /\ \E n \in 1..Len(io) :
       /\ io[n].op = "transform" /\ ~io[n].ok
       /\ io[n].idx > 1 /\ io[n].idx < Len(files)
       /\ \E m \in 1..n : io[m].op = "writeFile" /\ io[m].ok

\* C2: in explicit mode every pair findFiles returns has its source below the
\* source directory and its output at the same relative place below the output
\* directory, the name's last segment replaced by the output extension and
\* every other segment kept.
C2_OutputMirrorsSource ==
  Explicit =>
    \A i \in 1..Len(files) :
      LET srcPath == files[i].srcPath
          outPath == files[i].outPath
          S == Get(options.srcDirPath)
          O == Get(options.outDirPath)
          name == Basename(srcPath)
      IN  /\ IsPrefix(S, srcPath)
          /\ Len(srcPath) > Len(S)
          /\ Len(outPath) = Len(O) + Len(srcPath) - Len(S)
          /\ Dirname(outPath) = Join(O, Dirname(Relative(S, srcPath)))
          /\ Len(Basename(outPath)) = Len(name)
          /\ \A j \in 1..(Len(name) - 1) : Basename(outPath)[j] = name[j]
          /\ Basename(outPath)[Len(name)] = options.outExtension

\* src/sub/b.d.ts is paired with out/sub/b.d.mjs
C2_Witness ==
  /\ Explicit
  /\ options.outExtension = "mjs"
  /\ \E i \in 1..Len(files) :
       /\ files[i].srcPath = Join(SRC, <<<<"sub">>, <<"b", "d", "ts">>>>)
       /\ files[i].outPath = Join(OUT, <<<<"sub">>, <<"b", "d", "mjs">>>>)

ExcludedNames ==
  {<<"node_modules">>, <<"", "git">>} \cup Range(commander.excludeDirs)

HasExcluded(rel) == \E j \in 1..Len(rel) : rel[j] \in ExcludedNames

\* C3: in explicit mode no filesystem call is made on a path that has a
\* reserved or excluded name below the source directory (listing, stat, read)
\* or at the mirrored place below the output directory (exists, mkdir, write),
\* and no returned pair has such a name in its source path.
C3_ExcludedNeverVisited ==
  Explicit =>
    /\ \A n \in 1..Len(io) :
         /\ io[n].op \in SourceOps =>
              ~HasExcluded(Relative(Get(options.srcDirPath), io[n].path))
         /\ io[n].op \in OutputOps =>
              ~HasExcluded(Relative(Get(options.outDirPath), io[n].path))
    /\ \A i \in 1..Len(files) :
         ~HasExcluded(Relative(Get(options.srcDirPath), files[i].srcPath))
    /\ \A k \in 1..Len(stack) :
         /\ ~HasExcluded(Relative(Get(options.srcDirPath), stack[k].srcDirPath))
         /\ \A i \in 1..Len(stack[k].outArr) :
              ~HasExcluded(Relative(Get(options.srcDirPath), stack[k].outArr[i].srcPath))

\* a finished discovery of a tree with .git and skip at the top and node_modules
\* one level down, which listed src/sub and returned pairs
C3_Witness ==
  /\ Explicit
  /\ pc = "exited"
  /\ exitCode = 0
  /\ commander.excludeDirs = <<<<"skip">>>>
  /\ IsDirectory(fs, Join(SRC, <<<<"sub">>, <<"node_modules">>>>))
  /\ \E n \in 1..Len(io) :
       io[n].op = "readdir" /\ io[n].path = Join(SRC, <<<<"sub">>>>)
  /\ Len(files) >= 2

Resolved == pc = "runGlob"

ManifestUsable ==
  /\ Join(PROJ, TSCONFIG) \notin denied
  /\ tsconfig.valid
  /\ Truthy(tsconfig.compilerOptions)

C6_ImportsForCommonjs ==
  Resolved =>
    Count(options.transforms, "imports") =
      IF /\ Get(tsconfig.compilerOptions).module = "commonjs"
         /\ Count(before.transforms, "imports") = 0
      THEN 1
      ELSE Count(before.transforms, "imports")

\* module "commonjs" and no "imports" before: appended
C6_Witness ==
  /\ Resolved
  /\ Get(tsconfig.compilerOptions).module = "commonjs"
  /\ ~Includes(before.transforms, "imports")
  /\ options.transforms[Len(options.transforms)] = "imports"

BothModes(c) == Truthy(c.outDir) /\ Truthy(c.args0) /\ Truthy(c.project)
NeitherMode(c) == ~(Truthy(c.outDir) /\ Truthy(c.args0)) /\ ~Truthy(c.project)

\* C7: a command line that gives both modes' options (output and source
\* directory and a project) or neither mode's options makes no filesystem call
\* and ends the process with status 1 in run().
C7_RejectedBeforeIo ==
  (BothModes(commander) \/ NeitherMode(commander)) =>
    /\ io = <<>>
    /\ pc \in {"start", "exited"}
    /\ pc = "exited" => exitCode = 1
    /\ options = NoOptions

\* both modes given, the process has exited with status 1
C7_Witness ==
  /\ BothModes(commander)
  /\ pc = "exited"
  /\ exitCode = 1


\* the tree below the output directory
OutTree(f, root) == [p \in {q \in DOMAIN f : IsPrefix(root, q)} |-> f[p]]

\* the output tree now is the output tree the first invocation left
SameOutput ==
  IF Truthy(options.outDirPath)
  THEN OutTree(fs, Get(options.outDirPath)) = OutTree(snap.fs, Get(options.outDirPath))
  ELSE fs = snap.fs

SecondRunEnded == runNo = "second" /\ pc = "exited"

\* what an invocation created or wrote, and what it took as a source
Produced(l) ==
  {l[n].path : n \in {k \in 1..Len(l) : l[k].op \in {"mkdir", "writeFile"} /\ l[k].ok}}
Consumed(l, pairs) ==
  {l[n].path : n \in {k \in 1..Len(l) : l[k].op \in {"readdir", "readFile"}}}
    \cup {pairs[i].srcPath : i \in 1..Len(pairs)}

\* C8 as claimed: the second of two invocations with the same command line
\* leaves the output tree as the first left it, wherever the output directory is.
C8_SecondRunSameOutput == SecondRunEnded => SameOutput

\* C8: the second invocation leaves the output tree as the first left it
\* whenever nothing the first invocation created or wrote is taken as a source
\* by the second (read as a source file or manifest, listed as a source
\* directory, or paired as a source).
C8_SecondRunSameOutputWithoutFeedback ==
  (SecondRunEnded /\ Produced(snap.io) \cap Consumed(io, files) = {}) => SameOutput

\* two successful invocations that each wrote two outputs or more
C8_Witness ==
  /\ SecondRunEnded
  /\ exitCode = 0
  /\ snap.exitCode = 0
  /\ Len(files) >= 2
  /\ Produced(snap.io) \cap Consumed(io, files) = {}
  /\ \E n \in 1..Len(snap.io) : snap.io[n].op = "writeFile" /\ snap.io[n].ok
  /\ \E n \in 1..Len(io) : io[n].op = "writeFile" /\ io[n].ok
  /\ SameOutput

\* runGlob has the whole pair list: files and include are expanded
ListComputed == pc \in {"globMkdir", "build", "buildWrite", "rejected", "exited"}

OnlyMkdirOf(n) ==
  \A m \in 1..Len(io) : (io[m].op = "mkdir" /\ io[m].path = io[n].path) => m = n

BeforeAnyBuild(n) == \A m \in 1..n : io[m].idx = 0

\* C9 as claimed: every mkdir of a needed output directory is the only one for
\* it, is issued once the pair list is complete and before any file is built.
C9_MkdirsAfterListComputed ==
  Project =>
    \A n \in 1..Len(io) :
      (io[n].op = "mkdir" /\ Includes(glob.outDirs, io[n].path)) =>
        /\ OnlyMkdirOf(n)
        /\ ListComputed
        /\ BeforeAnyBuild(n)

\* C9: in project mode every mkdir is the only one for its directory and is
\* issued before any file is built; every mkdir but that of the output root
\* (options.outDirPath, created when missing before files and include are
\* expanded) is issued once the pair list is complete.
C9_MkdirsOncePerDirectory ==
  Project =>
    \A n \in 1..Len(io) :
      io[n].op = "mkdir" =>
        /\ OnlyMkdirOf(n)
        /\ BeforeAnyBuild(n)
        /\ IF io[n].path = Get(options.outDirPath)
           THEN io[n].at = "globRoot"
           ELSE io[n].at = "globMkdir" /\ ListComputed /\ Includes(glob.outDirs, io[n].path)

\* a project built into dist and dist/lib: the root made first, dist/lib after
\* the list, both needed
C9_Witness ==
  /\ Project
  /\ pc = "exited"
  /\ exitCode = 0
  /\ Includes(glob.outDirs, Join(PROJ, DIST))
  /\ \E n \in 1..Len(io) :
       io[n].op = "mkdir" /\ io[n].ok /\ io[n].path = Join(PROJ, DIST)
  /\ \E n \in 1..Len(io) :
       /\ io[n].op = "mkdir" /\ io[n].ok
       /\ io[n].path = Join(PROJ, Join(DIST, <<<<"lib">>>>))

\* C10: findFiles ends by itself (it returns, or fails on the tree it was
\* given): it is never stopped only by the system refusing a path that has
\* grown too long, whatever the place of the output directory.
C10_DiscoveryTerminates == failure # "ENAMETOOLONG"

====
